---------------------------- MODULE Spec2Model ----------------------------
(***************************************************************************)
(* Model of the research-paper backend (src/backend): the paper            *)
(* generation state machine of main.py, the keyword-combination search     *)
(* strategy of openalex_search.py, and the humanizing rewrite of a         *)
(* completion text (chatgpt.py, openalex_search.py, humanizer.py).         *)
(*                                                                         *)
(* Modelling conventions                                                   *)
(*  - Text is a sequence of one-character strings, so that Python's        *)
(*    substring test (`in`) and f-string concatenation are computed, not   *)
(*    assumed.                                                             *)
(*  - The store holds one paper row.  A handler loads the row, works on    *)
(*    the loaded object and db.commit() writes the object's attribute      *)
(*    values back; db.rollback() leaves the row as it was.  (The ORM's     *)
(*    own change tracking of JSON columns lies outside src/ and is not     *)
(*    modelled: a committed attribute holds the value the handler gave     *)
(*    it.)                                                                 *)
(*  - Python None is NULL.  The columns edit_history and                   *)
(*    confirmed_sections are only read through `x or []`, so None and []   *)
(*    are both the empty sequence; section_content is read through         *)
(*    `x or {}` or is a dict, so it is a function.                         *)
(*  - EditHistoryItem.timestamp (datetime.now()) is not modelled.          *)
(*  - Time is counted in whole seconds; an elapsed time of 0 stands for    *)
(*    any time shorter than a second.  time.sleep(d) takes exactly d.      *)
(*  - The handlers are coroutines that never yield while they call the     *)
(*    humanizer (requests.post and time.sleep block the event loop), so    *)
(*    the rewrites of one process run one after the other.                 *)
(***************************************************************************)
EXTENDS Integers, Sequences, FiniteSets, TLC

VARIABLES
    \* ---- the stored paper row (models.ResearchPaper) ----
    exists,              \* the row is in the store
    required_sections,   \* Column(JSON): ordered list of names
    custom_sections,     \* Column(JSON): ordered list of names
    current_section,     \* Column(String, nullable)
    section_content,     \* Column(JSON): name -> text
    generation_status,   \* Column(String)
    edit_history,        \* Column(JSON): list of EditHistoryItem
    confirmed_sections,  \* Column(JSON): list of names
    \* ---- the last request served and its response ----
    last,
    nreq,                \* number of requests served so far
    \* ---- one run of OpenAlexSearch.get_reference_papers_content ----
    s_pc,                \* "idle" | "combos" | "done"
    s_keywords,          \* the keyword list of the run
    s_level,             \* required_keywords of the loop at line 310
    s_idx,               \* index of the next combination of that level
    processed_papers,    \* line 288
    seen_paper_ids,      \* line 289
    s_queries,           \* the queries sent to search_works, in order
    s_result,            \* the returned 'papers' (once s_pc = "done")
    \* ---- the rewrite of one completion text (chatgpt.generate_section,
    \*      OpenAlexSearch.get_chatgpt_analysis, humanizer.AIHumanizer) ----
    r_pc,                \* "idle" | "completion" | "attempt" | "done"
    r_kind,              \* "section" | "analysis": the function running
    r_jobs,              \* number of runs started so far
    r_now,               \* time.time(), in whole seconds
    last_request_time,   \* AIHumanizer.last_request_time of each instance
    r_content,           \* the completion text (pre-rewrite)
    r_completions,       \* completion calls sent by the run
    r_attempt,           \* number of the _make_api_request attempt to come
    r_humanize,          \* "none" | "ok" | "no_text" | "retry_error"
    r_outcome,           \* "none" | "returned" | "raised"
    r_result,            \* the text the run returned
    r_sent,              \* the requests sent to the humanizing service
    \* chatgpt.generate_section, the citation markers of one generated text
    c_pc,                \* "idle" | "generated" | "extracted"
    c_content,           \* response.choices[0].message.content
    references_used,     \* paper_data["references_used"]
    \* generate_section_content requests served side by side
    inflight,            \* request -> [pc, section, current_content]
    \* history of the requests served (SpecOrder)
    served               \* sequence of [op, code, section]

paperVars == <<exists, required_sections, custom_sections, current_section,
               section_content, generation_status, edit_history,
               confirmed_sections, last, nreq>>
searchVars == <<s_pc, s_keywords, s_level, s_idx, processed_papers,
                seen_paper_ids, s_queries, s_result>>
rewriteVars == <<r_pc, r_kind, r_jobs, r_now, last_request_time, r_content,
                 r_completions, r_attempt, r_humanize, r_outcome, r_result,
                 r_sent>>
citeVars == <<c_pc, c_content, references_used>>
vars == <<paperVars, searchVars, rewriteVars, citeVars, inflight, served>>

NULL == "<none>"

(***************************************************************************)
(* Bounds and input domains                                                *)
(***************************************************************************)
MaxRequests == 3      \* requests served in one behaviour
MaxResults == 2       \* candidates one search returns (SpecRefs)
MaxJobs == 2          \* rewrite runs in one behaviour (SpecRewrite)
MaxInFlight == 2      \* requests served side by side (SpecInFlight)
MaxCalls == 4         \* requests served in one behaviour (SpecOrder)

\* section names a request may carry
SectionNames == {"abstract", "intro", "custom"}

\* (required_sections, custom_sections) pairs sent to start
StartInputs ==
    { [required |-> <<"abstract", "intro">>, custom |-> <<>>],
      [required |-> <<"abstract", "intro">>, custom |-> <<"custom">>],
      [required |-> <<"intro">>,             custom |-> <<"custom">>],
      [required |-> <<>>,                    custom |-> <<"custom">>],
      [required |-> <<"intro", "intro">>,    custom |-> <<>>],
      [required |-> <<>>,                    custom |-> <<>>] }

\* texts the completion service (after the humanizing pass) may return, and
\* texts a client may send as the current content of an edit request
Texts == { <<"x">>, <<"y">> }

\* paper identifiers a request may carry; the stored paper has KnownId
KnownId == "p1"
PaperIds == {"p1", "p2"}

(***************************************************************************)
(* Text helpers                                                            *)
(***************************************************************************)
RECURSIVE Join(_, _)
\* sep.join(parts)
Join(parts, sep) ==
    IF parts = <<>> THEN <<>>
    ELSE IF Len(parts) = 1 THEN parts[1]
    ELSE parts[1] \o sep \o Join(Tail(parts), sep)

\* Python `needle in haystack` on str
Contains(haystack, needle) ==
    \E i \in 0..(Len(haystack) - Len(needle)) :
        SubSeq(haystack, i + 1, i + Len(needle)) = needle

\* Python list.index(x) (0-based) when x in list, else -1   (main.py:261)
IndexOf(list, x) ==
    IF \E i \in 1..Len(list) : list[i] = x
    THEN (CHOOSE i \in 1..Len(list) :
              list[i] = x /\ \A j \in 1..(i - 1) : list[j] # x) - 1
    ELSE -1

\* Python list[i] with a 0-based index known to be in range
At(list, i) == list[i + 1]

\* elements of a list
Elems(list) == { list[i] : i \in 1..Len(list) }

\* dict[k] = v
Put(m, k, v) == [x \in (DOMAIN m) \cup {k} |-> IF x = k THEN v ELSE m[x]]

\* Python truthiness of a str-or-None section name
Truthy(s) == s # NULL /\ s # ""

(***************************************************************************)
(* The paper generation state machine (main.py)                            *)
(***************************************************************************)
\* The last request and its response, as far as the claims read them: the
\* handler, the exception it raised ("none" when it returned), the HTTP
\* status, and on success the section acted on and the next_section field.
\* For generate_section_content also the 'papers' the search returned and
\* whether the citation line of one of them was in the references block
\* before the request, and what became of the analysis of the search
\* strategy: "text" (get_chatgpt_analysis returned the analysis), "error" (its
\* completion call raised and it returned its placeholder), "absent" (the
\* search was aborted and returned analysis None); "none" for the other
\* handlers.  `status` is the "status" field of the returned body (NULL when
\* there is none) and `completions` the number of calls the request sent to
\* the completion service.
Response(op, section, code, error, next) ==
    [op |-> op, section |-> section, code |-> code, error |-> error,
     next_section |-> next, papers |-> <<>>, resurfaced |-> FALSE,
     analysis |-> "none", status |-> NULL, completions |-> 0]

\* a response with its "status" field and its number of completion calls
Returned(response, status, completions) ==
    [response EXCEPT !.status = status, !.completions = completions]

\* db.query(ResearchPaper).filter(ResearchPaper.id == paper_id).first()
Found(pid) == exists /\ pid = KnownId

\* the columns of the row
row == <<exists, required_sections, custom_sections, current_section,
         section_content, generation_status, edit_history,
         confirmed_sections>>

\* `raise HTTPException(status_code=404, ...)` inside the handler's try block
\* is caught by its own `except Exception` and re-raised with status 500;
\* db.rollback() leaves the row as it was.
NotFound(op, pid) ==
    /\ ~Found(pid)
    /\ last' = Response(op, NULL, 500, "not_found", NULL)
    /\ UNCHANGED row

\* a failed completion call: the exception reaches `except Exception`,
\* db.rollback(), HTTPException(500)
UpstreamFailed(op) ==
    /\ last' = Returned(Response(op, NULL, 500, "upstream", NULL), NULL, 1)
    /\ UNCHANGED row

\* FirstSection preferring the custom sections
FirstSectionCustomFirst(inp) ==
    IF inp.custom # <<>> THEN inp.custom[1] ELSE inp.required[1]

\* main.py:205
FirstSection(inp) ==
    IF inp.required # <<>> THEN inp.required[1] ELSE inp.custom[1]

\* start_paper_generation   (main.py:197-249)
StartPaper ==
    /\ ~exists
    /\ \/ \E inp \in StartInputs :
            \* ValueError, reported with status 500
            /\ inp.required = <<>> /\ inp.custom = <<>>
            /\ last' = Response("start", NULL, 500, "validation", NULL)
            /\ UNCHANGED row
       \/ \E inp \in StartInputs :
            \* generate_abstract raised: the added row is rolled back
            /\ ~(inp.required = <<>> /\ inp.custom = <<>>)
            /\ FirstSection(inp) = "abstract"
            /\ UpstreamFailed("start")
       \/ \E inp \in StartInputs, text \in Texts :
            /\ ~(inp.required = <<>> /\ inp.custom = <<>>)
            /\ exists' = TRUE
            /\ required_sections' = inp.required
            /\ custom_sections' = inp.custom
            /\ generation_status' = "in_progress"
            /\ current_section' = FirstSection(inp)
            /\ section_content' =
                   IF FirstSection(inp) = "abstract"
                   THEN Put(<<>>, "abstract", text)
                   ELSE <<>>
            /\ edit_history' = <<>>
            /\ confirmed_sections' = <<>>
            /\ last' = Returned(Response("start", FirstSection(inp), 200,
                                          "none", NULL),
                                 "in_progress",
                                 IF FirstSection(inp) = "abstract"
                                 THEN 1 ELSE 0)

\* main.py:260-262
AllSections == required_sections \o custom_sections
CurrentIndex == IndexOf(AllSections, current_section)
NextSection ==
    IF CurrentIndex + 1 < Len(AllSections)
    THEN At(AllSections, CurrentIndex + 1) ELSE NULL

\* PreviewSection returning the section just generated
PreviewSectionGenerated ==
    IF CurrentIndex + 1 < Len(AllSections)
    THEN At(AllSections, CurrentIndex + 1) ELSE NULL

\* main.py:296
PreviewSection ==
    IF CurrentIndex + 2 < Len(AllSections)
    THEN At(AllSections, CurrentIndex + 2) ELSE NULL

\* generate_next_section   (main.py:251-306)
GenerateNext ==
    \/ \E pid \in PaperIds : NotFound("generate_next", pid)
    \/ /\ Found(KnownId)
       /\ ~Truthy(NextSection)
       /\ generation_status' = "completed"
       /\ last' = Returned(Response("generate_next", NULL, 200, "none", NULL),
                            "completed", 0)
       /\ UNCHANGED <<exists, required_sections, custom_sections,
                      current_section, section_content, edit_history,
                      confirmed_sections>>
    \/ /\ Found(KnownId)
       /\ Truthy(NextSection)
       /\ UpstreamFailed("generate_next")
    \/ \E text \in Texts :
       /\ Found(KnownId)
       /\ Truthy(NextSection)
       /\ section_content' = Put(section_content, NextSection, text)
       /\ current_section' = NextSection
       /\ last' = Returned(Response("generate_next", NextSection, 200,
                                     "none", PreviewSection),
                            NULL, 1)
       /\ UNCHANGED <<exists, required_sections, custom_sections,
                      generation_status, edit_history, confirmed_sections>>

\* confirm_abstract   (main.py:417-442)
ConfirmAbstract ==
    \/ \E pid \in PaperIds : NotFound("confirm_abstract", pid)
    \/ /\ Found(KnownId)
       /\ generation_status' = "abstract_confirmed"
       /\ last' = Returned(Response("confirm_abstract", NULL, 200, "none",
                                     NULL),
                            "success", 0)
       /\ UNCHANGED <<exists, required_sections, custom_sections,
                      current_section, section_content, edit_history,
                      confirmed_sections>>

\* main.py:546-549: append when absent
ConfirmedAfter(section) ==
    IF section \in Elems(confirmed_sections)
    THEN confirmed_sections
    ELSE Append(confirmed_sections, section)

\* AllConfirmed comparing the lists, not the sets
AllConfirmedOrdered(confirmed) == confirmed = required_sections

\* AllConfirmed accepting any confirmed section as the whole
AllConfirmedSubset(confirmed) ==
    Elems(confirmed) \subseteq Elems(required_sections)

\* main.py:552: the completion test of confirm_section
AllConfirmed(confirmed) == Elems(confirmed) = Elems(required_sections)

\* main.py:562: next((s for s in required_sections if s not in confirmed), None)
NextUnconfirmed(confirmed) ==
    IF \E i \in 1..Len(required_sections) :
           required_sections[i] \notin Elems(confirmed)
    THEN required_sections[CHOOSE i \in 1..Len(required_sections) :
             /\ required_sections[i] \notin Elems(confirmed)
             /\ \A j \in 1..(i - 1) : required_sections[j] \in Elems(confirmed)]
    ELSE NULL

\* confirm_section   (main.py:538-573)
ConfirmSection ==
    \/ \E pid \in PaperIds : NotFound("confirm_section", pid)
    \/ \E section \in SectionNames :
       /\ Found(KnownId)
       /\ confirmed_sections' = ConfirmedAfter(section)
       /\ generation_status' =
              IF AllConfirmed(ConfirmedAfter(section))
              THEN "completed" ELSE "in_progress"
       /\ last' = Returned(Response("confirm_section", section, 200, "none",
                                     NextUnconfirmed(ConfirmedAfter(section))),
                            "success", 0)
       /\ UNCHANGED <<exists, required_sections, custom_sections,
                      current_section, section_content, edit_history>>

\* EditHistoryItem(...).dict()   (main.py:372-377, 620-625)
EditHistoryItem(instructions, previous_content, new_content) ==
    [instructions |-> instructions, previous_content |-> previous_content,
     new_content |-> new_content]

\* the history holding nothing but the new item
AppendEditFresh(history, item) == <<item>>

\* current_history = paper.edit_history or []; current_history.append(item)
\* (main.py:371-378, 619-626)
AppendEdit(history, item) == Append(history, item)

\* instructions an edit request may carry
Instructions == { <<"i">> }

\* edit_abstract   (main.py:328-401)
EditAbstract ==
    \/ \E pid \in PaperIds : NotFound("edit_abstract", pid)
    \/ /\ Found(KnownId)
       /\ UpstreamFailed("edit_abstract")
    \/ \E abstract \in Texts, instr \in Instructions, edited \in Texts :
       /\ Found(KnownId)
       /\ edit_history' =
              AppendEdit(edit_history, EditHistoryItem(instr, abstract, edited))
       /\ section_content' = Put(<<>>, "abstract", edited)
       /\ last' = Returned(Response("edit_abstract", "abstract", 200,
                                     "none", NULL),
                            "success", 1)
       /\ UNCHANGED <<exists, required_sections, custom_sections,
                      current_section, generation_status, confirmed_sections>>

\* edit_section   (main.py:575-651)
EditSection ==
    \/ \E pid \in PaperIds : NotFound("edit_section", pid)
    \/ /\ Found(KnownId)
       /\ UpstreamFailed("edit_section")
    \/ \E section_name \in SectionNames, current_content \in Texts,
          instr \in Instructions, improved \in Texts :
       /\ Found(KnownId)
       /\ edit_history' =
              AppendEdit(edit_history,
                         EditHistoryItem(instr, current_content, improved))
       /\ section_content' = Put(section_content, section_name, improved)
       /\ last' = Returned(Response("edit_section", section_name, 200,
                                     "none", NULL),
                            "success", 1)
       /\ UNCHANGED <<exists, required_sections, custom_sections,
                      current_section, generation_status, confirmed_sections>>

(***************************************************************************)
(* The references block of generate_section_content (main.py:498-513)      *)
(***************************************************************************)
\* "\n\n## References\n\n"   (main.py:500)
ReferencesHeader ==
    <<"\n", "\n", "#", "#", " ", "R", "e", "f", "e", "r", "e", "n", "c", "e",
      "s", "\n", "\n">>

\* paper details as get_paper_details returns them, reduced to the fields the
\* citation is built from (openalex_search.py:203-218)
PaperDetails(authors, year, title, doi) ==
    [authors |-> authors, publication_year |-> year, title |-> title,
     doi |-> doi]

\* candidates a search may return: a work with DOI, the same work without
\* DOI, an unrelated work
WorkA == PaperDetails(<< <<"A">> >>, <<"1">>, <<"T">>, <<"d">>)
WorkANoDoi == PaperDetails(<< <<"A">> >>, <<"1">>, <<"T">>, <<>>)
WorkB == PaperDetails(<< <<"B">> >>, <<"2">>, <<"U">>, <<"e">>)
Candidates == { WorkA, WorkANoDoi, WorkB }

RECURSIVE SeqsUpTo(_, _)
\* the sequences over S of length at most n
SeqsUpTo(S, n) ==
    IF n = 0 THEN { <<>> }
    ELSE SeqsUpTo(S, n - 1) \cup
         { Append(q, x) : q \in { r \in SeqsUpTo(S, n - 1) : Len(r) = n - 1 },
                          x \in S }

\* the 'papers' lists a search returns to generate_section_content: in Spec a
\* few lists, in SpecRefs every list of at most MaxResults candidates
SearchResults == { <<>>, <<WorkA>>, <<WorkB, WorkANoDoi>> }
AllSearchResults == SeqsUpTo(Candidates, MaxResults)

\* main.py:507-509
Citation(ref_paper) ==
    Join(ref_paper.authors, <<",", " ">>) \o <<" ", "(">>
        \o ref_paper.publication_year \o <<")", ".", " ">>
        \o ref_paper.title \o <<".", " ">>
        \o (IF ref_paper.doi # <<>>
            THEN <<"D", "O", "I", ":", " ">> \o ref_paper.doi ELSE <<>>)

\* AddCitation without the test `citation not in references_section`
AddCitationAlways(references_section, ref_paper) ==
    references_section \o Citation(ref_paper) \o <<"\n", "\n">>

\* main.py:511-512: one round of the loop over reference_papers["papers"]
AddCitation(references_section, ref_paper) ==
    IF ~Contains(references_section, Citation(ref_paper))
    THEN references_section \o Citation(ref_paper) \o <<"\n", "\n">>
    ELSE references_section

RECURSIVE AddCitations(_, _)
\* main.py:505-512: the loop
AddCitations(references_section, papers) ==
    IF papers = <<>> THEN references_section
    ELSE AddCitations(AddCitation(references_section, Head(papers)),
                      Tail(papers))

\* MergedContent keeping nothing but the generated section and the references
MergedContentFresh(section, text, papers) ==
    LET fresh == Put(Put(<<>>, section, text), "references", ReferencesHeader)
    IN  Put(fresh, "references", AddCitations(fresh["references"], papers))

\* main.py:495-513: the section map generate_section_content builds from
\* the map of the row it loaded
MergedInto(current_content, section, text, papers) ==
    LET with_section == Put(current_content, section, text)
        with_refs ==
            IF "references" \notin DOMAIN with_section
            THEN Put(with_section, "references", ReferencesHeader)
            ELSE with_section
    IN  IF papers # <<>>
        THEN Put(with_refs, "references",
                 AddCitations(with_refs["references"], papers))
        ELSE with_refs

\* main.py:495-513: the section map generate_section_content commits when no
\* other request changes the row in between
MergedContent(section, text, papers) ==
    MergedInto(section_content, section, text, papers)

\* outcomes of get_chatgpt_analysis within get_reference_papers_content
\* (openalex_search.py:348, 259-282, 355-360)
Analyses == {"text", "error", "absent"}

\* completion calls of one generate_section_content request: the analysis
\* call, unless the search was aborted before it, and the section call
CompletionCalls(analysis) == IF analysis = "absent" THEN 1 ELSE 2

\* main.py:521-526, with the request's search result
GenerateSectionResponse(section, papers, analysis) ==
    [Returned(Response("generate_section", section, 200, "none", NULL),
              "success", CompletionCalls(analysis))
        EXCEPT !.papers = papers,
               !.analysis = analysis,
               !.resurfaced =
                   /\ "references" \in DOMAIN section_content
                   /\ \E i \in 1..Len(papers) :
                          Contains(section_content["references"],
                                   Citation(papers[i]) \o <<"\n", "\n">>)]

\* generate_section_content   (main.py:444-536), request.section being one of
\* `sections`, the search returning one of `results` and its analysis ending
\* as one of `analyses`
GenerateSectionWith(sections, results, analyses) ==
    \/ \E pid \in PaperIds : NotFound("generate_section", pid)
    \/ \E analysis \in analyses :
       \* generate_section raised
       /\ Found(KnownId)
       /\ last' = [Returned(Response("generate_section", NULL, 500,
                                      "upstream", NULL),
                             NULL, CompletionCalls(analysis))
                       EXCEPT !.analysis = analysis]
       /\ UNCHANGED row
    \/ \E section \in sections, papers \in results, text \in Texts,
          analysis \in analyses :
       /\ Found(KnownId)
       /\ analysis = "absent" => papers = <<>>
       /\ section_content' = MergedContent(section, text, papers)
       /\ current_section' = section
       /\ last' = GenerateSectionResponse(section, papers, analysis)
       /\ UNCHANGED <<exists, required_sections, custom_sections,
                      generation_status, edit_history, confirmed_sections>>

GenerateSection == GenerateSectionWith(SectionNames, SearchResults, Analyses)

(***************************************************************************)
(* The two AIHumanizer instances and the clock                             *)
(***************************************************************************)
\* chatgpt.humanizer (chatgpt.py:22) and OpenAlexSearch.humanizer
\* (openalex_search.py:38), one OpenAlexSearch serving every request
\* (main.py:30-35)
Humanizers == {"chatgpt", "search"}

\* time.time() when the process starts, in whole seconds: later than the
\* initial last_request_time (0) by more than min_request_interval
StartTime == 2

(***************************************************************************)
(* Specification of the paper state machine                                *)
(***************************************************************************)
Init ==
    /\ exists = FALSE
    /\ required_sections = <<>>
    /\ custom_sections = <<>>
    /\ current_section = NULL
    /\ section_content = <<>>
    /\ generation_status = "not_started"
    /\ edit_history = <<>>
    /\ confirmed_sections = <<>>
    /\ last = Response("none", NULL, 200, "none", NULL)
    /\ nreq = 0
    /\ s_pc = "idle"
    /\ s_keywords = <<>>
    /\ s_level = 0
    /\ s_idx = 0
    /\ processed_papers = <<>>
    /\ seen_paper_ids = {}
    /\ s_queries = <<>>
    /\ s_result = <<>>
    /\ r_pc = "idle"
    /\ r_kind = "none"
    /\ r_jobs = 0
    /\ r_now = StartTime
    /\ last_request_time = [h \in Humanizers |-> 0]
    /\ r_content = <<>>
    /\ r_completions = 0
    /\ r_attempt = 0
    /\ r_humanize = "none"
    /\ r_outcome = "none"
    /\ r_result = <<>>
    /\ r_sent = <<>>
    /\ c_pc = "idle"
    /\ c_content = <<>>
    /\ references_used = {}
    /\ inflight = [r \in 1..MaxInFlight |->
                      [pc |-> "idle", section |-> NULL,
                       current_content |-> <<>>]]
    /\ served = <<>>

\* one request is served
Served(handler) ==
    /\ nreq < MaxRequests
    /\ handler
    /\ nreq' = nreq + 1
    /\ UNCHANGED <<searchVars, rewriteVars, citeVars, inflight, served>>

Next ==
    \/ Served(StartPaper)
    \/ Served(GenerateNext)
    \/ Served(GenerateSection)
    \/ Served(EditAbstract)
    \/ Served(EditSection)
    \/ Served(ConfirmAbstract)
    \/ Served(ConfirmSection)

Spec == Init /\ [][Next]_vars

\* start and generate-named-section only, for a listed section or for the
\* name "references" itself, the search returning any list of at most
\* MaxResults candidates and an analysis
NextRefs ==
    \/ Served(StartPaper)
    \/ Served(GenerateSectionWith({"intro", "references"}, AllSearchResults,
                                  {"text"}))

SpecRefs == Init /\ [][NextRefs]_vars

(***************************************************************************)
(* The order of generation: start, generate-next and                       *)
(* generate-named-section served one after the other, with the history of  *)
(* the requests.                                                           *)
(***************************************************************************)
\* one request is served and recorded
Recorded(handler) ==
    /\ nreq < MaxCalls
    /\ handler
    /\ nreq' = nreq + 1
    /\ served' = Append(served, [op |-> last'.op, code |-> last'.code,
                                  section |-> last'.section])
    /\ UNCHANGED <<searchVars, rewriteVars, citeVars, inflight>>

NextOrder ==
    \/ Recorded(StartPaper)
    \/ Recorded(GenerateNext)
    \/ Recorded(GenerateSectionWith({"abstract", "custom"}, {<<>>}, {"text"}))

SpecOrder == Init /\ [][NextOrder]_vars

(***************************************************************************)
(* generate_section_content requests served side by side.  Every request   *)
(* has a session of its own (database.get_db); nothing in the handler      *)
(* locks the row or compares it with the row it loaded, so the read of     *)
(* one request may fall between the read and the commit of another when    *)
(* more than one server process works on the store.                        *)
(***************************************************************************)
Requests == 1..MaxInFlight

\* CommitSection merging into the row as stored at the time of the commit
CommitSectionStored(r) ==
    \E text \in Texts, papers \in {<<>>, <<WorkA>>} :
       /\ inflight[r].pc = "read"
       /\ section_content' =
              MergedInto(section_content, inflight[r].section, text, papers)
       /\ current_section' = inflight[r].section
       /\ last' = GenerateSectionResponse(inflight[r].section, papers, "text")
       /\ inflight' = [inflight EXCEPT ![r].pc = "committed"]
       /\ UNCHANGED <<exists, required_sections, custom_sections,
                      generation_status, edit_history, confirmed_sections,
                      nreq>>

\* main.py:448-450: the request loads the row, or finds none
ReadPaper(r) ==
    /\ inflight[r].pc = "idle"
    /\ \/ /\ ~exists
          /\ last' = Response("generate_section", NULL, 500, "not_found",
                              NULL)
          /\ inflight' = [inflight EXCEPT ![r].pc = "failed"]
       \/ \E section \in {"intro", "custom"} :
          /\ exists
          /\ inflight' = [inflight EXCEPT
                             ![r] = [pc |-> "read", section |-> section,
                                     current_content |-> section_content]]
          /\ UNCHANGED last
    /\ UNCHANGED <<row, nreq>>

\* main.py:495-517: the request merges its section into the map of the row
\* it loaded and commits the result
CommitSection(r) ==
    \E text \in Texts, papers \in {<<>>, <<WorkA>>} :
       /\ inflight[r].pc = "read"
       /\ section_content' =
              MergedInto(inflight[r].current_content, inflight[r].section,
                         text, papers)
       /\ current_section' = inflight[r].section
       /\ last' = GenerateSectionResponse(inflight[r].section, papers, "text")
       /\ inflight' = [inflight EXCEPT ![r].pc = "committed"]
       /\ UNCHANGED <<exists, required_sections, custom_sections,
                      generation_status, edit_history, confirmed_sections,
                      nreq>>

\* main.py:528-536: generate_section raised, nothing is committed
AbandonSection(r) ==
    /\ inflight[r].pc = "read"
    /\ last' = Returned(Response("generate_section", NULL, 500, "upstream",
                                  NULL),
                         NULL, 2)
    /\ inflight' = [inflight EXCEPT ![r].pc = "failed"]
    /\ UNCHANGED <<row, nreq>>

NextInFlight ==
    \/ Served(StartPaper)
    \/ \E r \in Requests :
          ReadPaper(r) /\ UNCHANGED <<searchVars, rewriteVars, citeVars, served>>
    \/ \E r \in Requests :
          CommitSection(r) /\ UNCHANGED <<searchVars, rewriteVars, citeVars, served>>
    \/ \E r \in Requests :
          AbandonSection(r) /\ UNCHANGED <<searchVars, rewriteVars, citeVars, served>>

SpecInFlight == Init /\ [][NextInFlight]_vars

(***************************************************************************)
(* The keyword-combination search strategy                                 *)
(* OpenAlexSearch.get_reference_papers_content (openalex_search.py:284-360)*)
(***************************************************************************)
TargetPaperCount == 40
PerPage == 25

\* A raw work record of the search service: its "id" (0 when absent or
\* falsy) and whether get_paper_details raises on it (e.g. an authorship
\* entry without "author").
Work(id) == [id |-> id, malformed |-> FALSE]
MalformedWork(id) == [id |-> id, malformed |-> TRUE]

\* a page of n well-formed records with the ids lo .. lo+n-1
Page(lo, n) == [i \in 1..n |-> Work(lo + i - 1)]

\* what one call of search_works may bring back as papers.get("results", []):
\* nothing, a full page, an overlapping full page, a short page, and a page
\* with a record without id, a repeated id and a malformed record
SearchResponses ==
    { <<>>,
      Page(1, PerPage),
      Page(20, PerPage),
      Page(60, 3),
      <<Work(0), Work(70), Work(70), MalformedWork(71), Work(1)>> }

\* the keyword lists of a run
KeywordLists == { <<>>, <<"a">>, <<"a", "b">>, <<"a", "b", "c">> }

\* the paper title of a run
Title == "title"

RECURSIVE CombinationsOf(_, _)
\* itertools.combinations(keywords, r): the r-element subsequences, in
\* lexicographic order of their positions
CombinationsOf(keywords, r) ==
    IF r = 0 THEN << <<>> >>
    ELSE IF Len(keywords) < r THEN <<>>
    ELSE LET with_first == CombinationsOf(Tail(keywords), r - 1)
             without_first == CombinationsOf(Tail(keywords), r)
         IN  [i \in 1..Len(with_first) |-> <<Head(keywords)>> \o with_first[i]]
                 \o without_first

\* Combinations with the levels walked upwards: range(1, len(keywords) + 1)
CombinationsAscending(keywords, required_keywords) ==
    CombinationsOf(keywords, Len(keywords) - required_keywords + 1)

\* list(combinations(keywords, required_keywords))   (line 315)
Combinations(keywords, required_keywords) ==
    CombinationsOf(keywords, required_keywords)

\* " AND ".join(f'"{keyword}"' for keyword in keyword_combo)   (line 322);
\* a keyword is one token of the text
SearchQuery(keyword_combo) ==
    Join([i \in 1..Len(keyword_combo) |-> <<"\"", keyword_combo[i], "\"">>],
         <<" AND ">>)

\* get_paper_details, reduced to the record the details come from
\* (lines 203-218)
GetPaperDetails(paper) == [source_id |-> paper.id]

\* the keys of the record get_paper_details builds (lines 209-218)
PaperDetailKeys ==
    {"title", "abstract", "doi", "publication_year", "authors", "keywords",
     "citations", "url"}

\* the keys of the result get_reference_papers_content returns, the same on
\* the normal path (lines 350-353) and after an exception (lines 357-360)
ResultKeys == {"papers", "analysis"}

\* AbsorbOne without the test against seen_paper_ids
AbsorbOneNoDedup(state, paper) ==
    IF Len(state.processed) >= TargetPaperCount THEN state
    ELSE IF paper.id # 0 /\ ~paper.malformed
    THEN [processed |-> Append(state.processed, GetPaperDetails(paper)),
          seen |-> state.seen \cup {paper.id}]
    ELSE state

\* lines 298-307 and 334-343: one record of a response
AbsorbOne(state, paper) ==
    IF Len(state.processed) >= TargetPaperCount THEN state
    ELSE IF paper.id # 0 /\ paper.id \notin state.seen /\ ~paper.malformed
    THEN [processed |-> Append(state.processed, GetPaperDetails(paper)),
          seen |-> state.seen \cup {paper.id}]
    ELSE state

RECURSIVE Absorb(_, _)
\* lines 294-307 and 330-343: the loop over one response
Absorb(state, results) ==
    IF results = <<>> THEN state
    ELSE Absorb(AbsorbOne(state, Head(results)), Tail(results))

\* a query as logged: the number of keywords it combines (0: the title
\* query) and its text
Query(size, text) == [size |-> size, text |-> text]

\* requests.get or response.json() raised inside search_works: nothing in
\* the loops catches it, the outer handler returns no papers (lines 355-360)
SearchAborted ==
    /\ s_pc' = "done"
    /\ s_result' = <<>>
    /\ UNCHANGED <<s_keywords, s_level, s_idx, processed_papers,
                   seen_paper_ids>>

\* lines 287-307: the title search
SearchTitle ==
    /\ s_pc = "idle"
    /\ \E keywords \in KeywordLists :
        /\ s_queries' = <<Query(0, <<Title>>)>>
        /\ \/ /\ s_pc' = "done"
              /\ s_result' = <<>>
              /\ s_keywords' = keywords
              /\ UNCHANGED <<s_level, s_idx, processed_papers,
                             seen_paper_ids>>
           \/ \E results \in SearchResponses :
                LET after == Absorb([processed |-> <<>>, seen |-> {}], results)
                IN  /\ processed_papers' = after.processed
                    /\ seen_paper_ids' = after.seen
                    /\ s_keywords' = keywords
                    /\ s_level' = Len(keywords)
                    /\ s_idx' = 1
                    /\ s_pc' = "combos"
                    /\ UNCHANGED s_result

\* the loops at lines 310 and 317 go on: a level is left to try and the
\* target is not reached
MoreQueries ==
    s_pc = "combos" /\ s_level >= 1
        /\ Len(processed_papers) < TargetPaperCount

\* lines 310-343: one keyword combination is searched
SearchCombo ==
    /\ MoreQueries
    /\ LET keyword_combinations == Combinations(s_keywords, s_level)
           keyword_combo == keyword_combinations[s_idx]
       IN  /\ s_queries' =
                  Append(s_queries, Query(Len(keyword_combo),
                                          SearchQuery(keyword_combo)))
           /\ \/ SearchAborted
              \/ \E results \in SearchResponses :
                   LET after == Absorb([processed |-> processed_papers,
                                        seen |-> seen_paper_ids], results)
                   IN  /\ processed_papers' = after.processed
                       /\ seen_paper_ids' = after.seen
                       /\ IF s_idx < Len(keyword_combinations)
                          THEN s_idx' = s_idx + 1 /\ UNCHANGED s_level
                          ELSE s_idx' = 1 /\ s_level' = s_level - 1
                       /\ UNCHANGED <<s_pc, s_keywords, s_result>>

\* lines 345-353: the loops are over, the papers are returned
SearchReturn ==
    /\ s_pc = "combos"
    /\ ~MoreQueries
    /\ s_pc' = "done"
    /\ s_result' = processed_papers
    /\ UNCHANGED <<s_keywords, s_level, s_idx, processed_papers,
                   seen_paper_ids, s_queries>>

NextSearch ==
    \/ SearchTitle /\ UNCHANGED <<paperVars, rewriteVars, citeVars, inflight, served>>
    \/ SearchCombo /\ UNCHANGED <<paperVars, rewriteVars, citeVars, inflight, served>>
    \/ SearchReturn /\ UNCHANGED <<paperVars, rewriteVars, citeVars, inflight, served>>

SpecSearch == Init /\ [][NextSearch]_vars

(***************************************************************************)
(* The humanizing rewrite of a completion text                             *)
(* chatgpt.generate_section (chatgpt.py:292-333),                          *)
(* OpenAlexSearch.get_chatgpt_analysis (openalex_search.py:220-282),       *)
(* AIHumanizer (humanizer.py:17-93)                                        *)
(***************************************************************************)
\* self.min_request_interval   (humanizer.py:28)
MinRequestInterval == 1

\* @retry(stop=stop_after_attempt(3),
\*        wait=wait_exponential(multiplier=1, min=4, max=10))  (humanizer.py:38)
StopAfterAttempt == 3
WaitMultiplier == 1
WaitMin == 4
WaitMax == 10

\* whole seconds a call, or the pause between two runs, may take; 0 is any
\* time shorter than a second
Elapsed == {0, 1}

\* texts the humanizing service returns
Rewritten == { <<"h">> }

\* the placeholder get_chatgpt_analysis returns   (openalex_search.py:282)
AnalysisError == <<"Error getting analysis from ChatGPT">>

\* the instance a function rewrites with: generate_section uses the module's
\* humanizer (chatgpt.py:325), get_chatgpt_analysis uses self.humanizer
\* (openalex_search.py:274)
Humanizer(kind) == IF kind = "section" THEN "chatgpt" ELSE "search"

Max(a, b) == IF a >= b THEN a ELSE b
Min(a, b) == IF a <= b THEN a ELSE b

\* wait_exponential: multiplier * 2^(attempt_number - 1), kept within
\* [min, max]
RetryWait(attempt_number) ==
    Max(WaitMin, Min(WaitMultiplier * 2 ^ (attempt_number - 1), WaitMax))

\* the retry decision that never stops
ShouldRetryAlways(attempt_number) == TRUE

\* stop_after_attempt(3): another attempt follows a failed one while fewer
\* than 3 have been made
ShouldRetry(attempt_number) == attempt_number < StopAfterAttempt

\* _wait_for_rate_limit (humanizer.py:30-36): the time the request goes out
\* and last_request_time is set to, the call being entered at current_time
SendTime(current_time, last_time) ==
    IF current_time - last_time < MinRequestInterval
    THEN current_time + (MinRequestInterval - (current_time - last_time))
    ELSE current_time

\* the fallback that returns nothing
FallbackEmpty(content) == <<>>

\* `return content` / `return chatgpt_response` in the handler of a failed
\* rewrite   (chatgpt.py:327-329, openalex_search.py:276-278)
Fallback(content) == content

\* a request as sent to the humanizing service
Sent(at, by, job, ok) == [at |-> at, by |-> by, job |-> job, ok |-> ok]

\* generate_section or get_chatgpt_analysis is called
BeginJob ==
    /\ r_pc \in {"idle", "done"}
    /\ r_jobs < MaxJobs
    /\ \E kind \in {"section", "analysis"}, pause \in Elapsed :
        /\ r_kind' = kind
        /\ r_now' = r_now + pause
    /\ r_jobs' = r_jobs + 1
    /\ r_pc' = "completion"
    /\ r_content' = <<>>
    /\ r_completions' = 0
    /\ r_attempt' = 0
    /\ r_humanize' = "none"
    /\ r_outcome' = "none"
    /\ r_result' = <<>>
    /\ UNCHANGED <<last_request_time, r_sent>>

\* client.chat.completions.create returns   (chatgpt.py:303-313,
\* openalex_search.py:259-270)
CompletionReturns ==
    /\ r_pc = "completion"
    /\ \E content \in Texts, took \in Elapsed :
        /\ r_content' = content
        /\ r_now' = r_now + took
    /\ r_completions' = r_completions + 1
    /\ r_attempt' = 1
    /\ r_pc' = "attempt"
    /\ UNCHANGED <<r_kind, r_jobs, last_request_time, r_humanize, r_outcome,
                   r_result, r_sent>>

\* client.chat.completions.create raises: generate_section re-raises
\* (chatgpt.py:331-333), get_chatgpt_analysis returns its placeholder
\* (openalex_search.py:280-282)
CompletionRaises ==
    /\ r_pc = "completion"
    /\ \E took \in Elapsed : r_now' = r_now + took
    /\ r_completions' = r_completions + 1
    /\ r_pc' = "done"
    /\ IF r_kind = "section"
       THEN r_outcome' = "raised" /\ UNCHANGED r_result
       ELSE r_outcome' = "returned" /\ r_result' = AnalysisError
    /\ UNCHANGED <<r_kind, r_jobs, last_request_time, r_content, r_attempt,
                   r_humanize, r_sent>>

\* one attempt of _make_api_request goes out   (humanizer.py:41-46)
Request(ok) ==
    LET h == Humanizer(r_kind)
        at == SendTime(r_now, last_request_time[h])
    IN  /\ last_request_time' = [last_request_time EXCEPT ![h] = at]
        /\ r_sent' = Append(r_sent, Sent(at, h, r_jobs, ok))

\* the time after an attempt that went out at SendTime and took `took`
AfterRequest(took) ==
    SendTime(r_now, last_request_time[Humanizer(r_kind)]) + took

\* the attempt succeeds and the response carries a text: humanize returns it
\* (humanizer.py:76-83) and so does the caller
RewriteReturns ==
    /\ r_pc = "attempt"
    /\ Request(TRUE)
    /\ \E text \in Rewritten, took \in Elapsed :
        /\ r_result' = text
        /\ r_now' = AfterRequest(took)
    /\ r_humanize' = "ok"
    /\ r_outcome' = "returned"
    /\ r_pc' = "done"
    /\ UNCHANGED <<r_kind, r_jobs, r_content, r_completions, r_attempt>>

\* the attempt succeeds and the response carries no text: humanize raises
\* ValueError (humanizer.py:77-78), which the caller catches
RewriteEmpty ==
    /\ r_pc = "attempt"
    /\ Request(TRUE)
    /\ \E took \in Elapsed : r_now' = AfterRequest(took)
    /\ r_humanize' = "no_text"
    /\ r_outcome' = "returned"
    /\ r_result' = Fallback(r_content)
    /\ r_pc' = "done"
    /\ UNCHANGED <<r_kind, r_jobs, r_content, r_completions, r_attempt>>

\* the attempt fails (requests.post or raise_for_status raises) and another
\* one follows after the wait
RewriteRetried ==
    /\ r_pc = "attempt"
    /\ ShouldRetry(r_attempt)
    /\ Request(FALSE)
    /\ \E took \in Elapsed :
        r_now' = AfterRequest(took) + RetryWait(r_attempt)
    /\ r_attempt' = r_attempt + 1
    /\ UNCHANGED <<r_pc, r_kind, r_jobs, r_content, r_completions,
                   r_humanize, r_outcome, r_result>>

\* the last attempt fails: the retry decorator raises RetryError, which is no
\* RequestException, so it leaves humanize (humanizer.py:85) and is caught by
\* the caller
RewriteGivenUp ==
    /\ r_pc = "attempt"
    /\ ~ShouldRetry(r_attempt)
    /\ Request(FALSE)
    /\ \E took \in Elapsed : r_now' = AfterRequest(took)
    /\ r_humanize' = "retry_error"
    /\ r_outcome' = "returned"
    /\ r_result' = Fallback(r_content)
    /\ r_pc' = "done"
    /\ UNCHANGED <<r_kind, r_jobs, r_content, r_completions, r_attempt>>

NextRewrite ==
    \/ BeginJob /\ UNCHANGED <<paperVars, searchVars, citeVars, inflight, served>>
    \/ CompletionReturns /\ UNCHANGED <<paperVars, searchVars, citeVars, inflight, served>>
    \/ CompletionRaises /\ UNCHANGED <<paperVars, searchVars, citeVars, inflight, served>>
    \/ RewriteReturns /\ UNCHANGED <<paperVars, searchVars, citeVars, inflight, served>>
    \/ RewriteEmpty /\ UNCHANGED <<paperVars, searchVars, citeVars, inflight, served>>
    \/ RewriteRetried /\ UNCHANGED <<paperVars, searchVars, citeVars, inflight, served>>
    \/ RewriteGivenUp /\ UNCHANGED <<paperVars, searchVars, citeVars, inflight, served>>

SpecRewrite == Init /\ [][NextRewrite]_vars

(***************************************************************************)
(* Citation markers of a generated text: chatgpt.generate_section,         *)
(* lines 313-321.  A text is a sequence of characters.                     *)
(***************************************************************************)
MaxTextLen == 6       \* characters of one generated text

Digits == {"1", "2"}
Alphabet == {"[", "]", "a"} \cup Digits

\* the end of the longest run of digits that starts at position j: the first
\* position at or after j that holds no digit (\d+ is greedy)
RECURSIVE DigitsEnd(_, _)
DigitsEnd(text, j) ==
    IF j <= Len(text) /\ text[j] \in Digits THEN DigitsEnd(text, j + 1) ELSE j

\* the pattern \[(\d+)\] matches at position i.  Giving digits back cannot
\* help: the character after a shorter run is a digit, never "]".
MatchesAt(text, i) ==
    /\ text[i] = "["
    /\ DigitsEnd(text, i + 1) > i + 1
    /\ DigitsEnd(text, i + 1) <= Len(text)
    /\ text[DigitsEnd(text, i + 1)] = "]"

\* the pattern \[(\d)\], one digit only
RECURSIVE FindAllOneDigit(_, _)
FindAllOneDigit(text, i) ==
    IF i > Len(text) THEN <<>>
    ELSE IF MatchesAt(text, i) /\ DigitsEnd(text, i + 1) = i + 2
         THEN <<SubSeq(text, i + 1, i + 1)>> \o FindAllOneDigit(text, i + 3)
         ELSE FindAllOneDigit(text, i + 1)

\* re.findall(r'\[(\d+)\]', text) from position i on: the groups of the
\* non-overlapping matches, scanning from left to right   (line 316)
RECURSIVE FindAll(_, _)
FindAll(text, i) ==
    IF i > Len(text) THEN <<>>
    ELSE IF MatchesAt(text, i)
         THEN <<SubSeq(text, i + 1, DigitsEnd(text, i + 1) - 1)>>
                  \o FindAll(text, DigitsEnd(text, i + 1) + 1)
         ELSE FindAll(text, i + 1)

\* line 313: the completion returns some text
CompletionContent ==
    /\ c_pc = "idle"
    /\ c_content' \in SeqsUpTo(Alphabet, MaxTextLen)
    /\ c_pc' = "generated"
    /\ UNCHANGED references_used

\* lines 316-321: references_used = set(findall); the set is created empty
\* when paper_data has none and updated with the markers
ExtractReferences ==
    /\ c_pc = "generated"
    /\ references_used' = references_used \cup Elems(FindAll(c_content, 1))
    /\ c_pc' = "extracted"
    /\ UNCHANGED c_content

NextCite ==
    \/ CompletionContent /\ UNCHANGED <<paperVars, searchVars, rewriteVars, inflight, served>>
    \/ ExtractReferences /\ UNCHANGED <<paperVars, searchVars, rewriteVars, inflight, served>>

SpecCite == Init /\ [][NextCite]_vars

(***************************************************************************)
(* Claims about the search strategy (checked under SpecSearch)             *)
(***************************************************************************)
\* no two entries of a candidate list come from records with the same id
NoDuplicateSource(papers) ==
    \A i, j \in 1..Len(papers) :
        i # j => papers[i].source_id # papers[j].source_id

\* C1: the candidate sequence get_reference_papers_content builds and returns
\* never has more than target_paper_count (40) entries, and no two of its
\* entries come from records with the same source-assigned identifier.
C1_AtMostTargetNoDuplicates ==
    /\ Len(processed_papers) <= TargetPaperCount
    /\ NoDuplicateSource(processed_papers)
    /\ Len(s_result) <= TargetPaperCount
    /\ NoDuplicateSource(s_result)

\* C1 witness: a run that returned exactly 40 candidates after more than one
\* query, the responses having offered an identifier more than once
C1_Witness ==
    /\ s_pc = "done"
    /\ Len(s_result) = TargetPaperCount
    /\ Len(s_queries) >= 2
    /\ \E i \in 1..Len(s_result) : s_result[i].source_id = 20

\* the number of r-element sets of positions of a list of n keywords
NumCombinations(n, r) ==
    Cardinality({ S \in SUBSET (1..n) : Cardinality(S) = r })

\* C2: the title query is the first query; the keyword queries follow with
\* non-increasing numbers of keywords, starting with all of them; and before
\* any query of a smaller size every combination of each larger size has been
\* queried, each once.
C2_QueryOrder ==
    LET n == Len(s_queries)
        sizeQueries(r, upto) ==
            { i \in 2..upto : s_queries[i].size = r }
    IN  /\ n >= 1 => s_queries[1].size = 0
        /\ \A i \in 2..n : s_queries[i].size \in 1..Len(s_keywords)
        /\ \A i, j \in 2..n : i < j => s_queries[i].size >= s_queries[j].size
        /\ \A j \in 2..n :
              \A r \in (s_queries[j].size + 1)..Len(s_keywords) :
                  /\ Cardinality(sizeQueries(r, j - 1))
                         = NumCombinations(Len(s_keywords), r)
                  /\ \A a, b \in sizeQueries(r, j - 1) :
                         a # b => s_queries[a].text # s_queries[b].text

\* C2 witness: for three keywords, a run that got down to a 1-keyword query
C2_Witness ==
    /\ Len(s_keywords) = 3
    /\ \E i \in 1..Len(s_queries) : s_queries[i].size = 1

\* the number of keyword queries a run over n keywords sends when nothing
\* stops it
NumKeywordQueries(n) ==
    LET RECURSIVE upTo(_)
        upTo(r) == IF r = 0 THEN 0 ELSE NumCombinations(n, r) + upTo(r - 1)
    IN  upTo(n)

\* C11 (as claimed): a failed search query is skipped and nothing more: the
\* run returns the candidates it absorbed, and it has queried every keyword
\* combination unless the target was reached.
C11_FailedQueryOnlySkipped ==
    s_pc = "done" =>
        /\ s_result = processed_papers
        /\ \/ Len(processed_papers) >= TargetPaperCount
           \/ Len(s_queries) = 1 + NumKeywordQueries(Len(s_keywords))

\* C21 (as claimed): no query is sent once target_paper_count candidates are
\* absorbed, and a run that returns with fewer has queried the title and
\* every combination of every size from len(keywords) down to 1.
C21_StopAtTargetElseExhaust ==
    [][/\ Len(processed_papers) >= TargetPaperCount => s_queries' = s_queries
       /\ (s_pc' = "done" /\ Len(processed_papers') < TargetPaperCount)
             => Len(s_queries') = 1 + NumKeywordQueries(Len(s_keywords'))
      ]_vars

\* C22 (as claimed): the result of get_reference_papers_content has a
\* 'content' sequence, whose items carry a title, a doi and a 'content' text,
\* and a 'citations' sequence.
C22_ResultHasContentAndCitations ==
    s_pc = "done" =>
        /\ {"content", "citations"} \subseteq ResultKeys
        /\ \A i \in 1..Len(s_result) :
              {"title", "doi", "content"} \subseteq PaperDetailKeys

(***************************************************************************)
(* Claims about citation markers (checked under SpecCite)                  *)
(***************************************************************************)
\* the digit strings that occur enclosed in square brackets in the text
BracketedDigitStrings(text) ==
    { d \in { SubSeq(text, i, j) : i \in 1..Len(text), j \in 1..Len(text) } :
        /\ d # <<>>
        /\ \A k \in 1..Len(d) : d[k] \in Digits
        /\ Contains(text, <<"[">> \o d \o <<"]">>) }

\* C23: the markers extracted from a generated text are exactly the digit
\* strings that occur enclosed in square brackets in it, each of them once
\* however often it occurs.
C23_MarkersAreBracketedDigitStrings ==
    c_pc = "extracted" =>
        /\ references_used = BracketedDigitStrings(c_content)
        /\ Cardinality(references_used) <= Len(FindAll(c_content, 1))

\* a text with two markers
C23_Witness ==
    /\ c_pc = "extracted"
    /\ c_content = <<"[", "1", "]", "[", "2", "]">>
    /\ references_used = {<<"1">>, <<"2">>}

\* a marker of two digits next to an unclosed one
C23_WitnessTwoDigits ==
    /\ c_pc = "extracted"
    /\ c_content = <<"[", "1", "[", "1", "2", "]">>
    /\ references_used = {<<"1", "2">>}

\* a marker that occurs twice is extracted once
C23_WitnessRepeated ==
    /\ c_pc = "extracted"
    /\ c_content = <<"[", "2", "]", "[", "2", "]">>
    /\ references_used = {<<"2">>}

(***************************************************************************)
(* Claims about the paper state machine (checked under Spec)               *)
(***************************************************************************)
Required == Elems(required_sections)
Confirmed == Elems(confirmed_sections)
ListedSections == Elems(required_sections) \cup Elems(custom_sections)

\* the last request was a confirm-section call that returned
AfterConfirmSection == last.op = "confirm_section" /\ last.code = 200

\* C3 (as claimed): after any sequence of operations generation_status is
\* completed if and only if confirmed_sections is a superset of
\* required_sections.
C3_CompletedIffAllConfirmed ==
    exists => ((generation_status = "completed") <=> (Required \subseteq Confirmed))

\* C3 (amended): generation_status turns completed only in a confirm-section
\* call or in a generate-next call that finds no section after
\* current_section; and whenever a confirm-section call leaves the status
\* completed, confirmed_sections is a superset of required_sections.
C3_CompletedOnlyByConfirmOrLastNext ==
    [][ /\ (last'.op = "confirm_section" /\ last'.code = 200
               /\ generation_status' = "completed")
           => Elems(required_sections') \subseteq Elems(confirmed_sections')
        /\ (generation_status' = "completed" /\ generation_status # "completed")
           => \/ last'.op = "confirm_section" /\ last'.code = 200
              \/ /\ last'.op = "generate_next" /\ last'.code = 200
                 /\ IndexOf(AllSections, current_section) + 1
                        >= Len(AllSections)
                 /\ UNCHANGED <<current_section, section_content>>
      ]_vars

\* C3 witness: a confirm-section call completed a paper with two required
\* sections
C3_Witness ==
    /\ AfterConfirmSection
    /\ generation_status = "completed"
    /\ Cardinality(Required) = 2

\* C4 (as claimed): after a confirm-section call generation_status is
\* completed whenever the confirmed set contains every required section, also
\* when it contains other names too, and in_progress otherwise.
C4_CompletedWhenSuperset ==
    AfterConfirmSection =>
        generation_status =
            IF Required \subseteq Confirmed THEN "completed" ELSE "in_progress"

\* C5: while only required sections have been confirmed, a confirm-section
\* call leaves generation_status completed exactly when it confirmed the last
\* remaining required section, and in_progress after every earlier call.
C5_CompletedAtLastRequired ==
    (AfterConfirmSection /\ Confirmed \subseteq Required) =>
        /\ generation_status \in {"completed", "in_progress"}
        /\ (generation_status = "completed") <=> (Required \subseteq Confirmed)

\* C5 witness: the two required sections were confirmed in the reverse of
\* their order and the second call completed the paper
C5_Witness ==
    /\ AfterConfirmSection
    /\ required_sections = <<"abstract", "intro">>
    /\ confirmed_sections = <<"intro", "abstract">>
    /\ generation_status = "completed"

\* C6 (as claimed): current_section, when non-null, is an element of
\* required_sections \cup custom_sections.
C6_CurrentSectionListed ==
    (exists /\ current_section # NULL) => current_section \in ListedSections

\* C7 (as claimed): the keys of the section map are a subset of
\* required_sections \cup custom_sections \cup {"references"}.
C7_KeysListed ==
    exists => DOMAIN section_content \subseteq ListedSections \cup {"references"}

\* C8 (as claimed): no operation removes a key of the section map.
C8_KeysNeverShrink ==
    [][DOMAIN section_content \subseteq DOMAIN section_content']_vars

\* a step that is a successful generate-named-section call for a section that
\* already has an entry
Regenerates ==
    /\ last'.op = "generate_section" /\ last'.code = 200 /\ nreq' = nreq + 1
    /\ last'.section \in DOMAIN section_content

\* text a is the beginning of text b
IsPrefix(a, b) == Len(a) <= Len(b) /\ SubSeq(b, 1, Len(a)) = a

\* C9 (as claimed): regenerating an existing section leaves every other key
\* present with the same content.
C9_OtherKeysUntouched ==
    [][Regenerates =>
          \A k \in DOMAIN section_content \ {last'.section} :
              k \in DOMAIN section_content'
                  /\ section_content'[k] = section_content[k]]_vars

\* C9 (amended): regenerating an existing section leaves every other key
\* present, with the same content except for the key "references", whose
\* content is kept as the beginning of its new content.
C9_OtherKeysUntouchedButReferences ==
    [][Regenerates =>
          \A k \in DOMAIN section_content \ {last'.section} :
              /\ k \in DOMAIN section_content'
              /\ k # "references" => section_content'[k] = section_content[k]
              /\ k = "references" =>
                     IsPrefix(section_content[k], section_content'[k])]_vars

\* C9 witness: the abstract generated by start was generated again while the
\* map held another section and the references block
C9_Witness ==
    /\ last.op = "generate_section" /\ last.code = 200
    /\ last.section = "abstract"
    /\ required_sections = <<"abstract", "intro">>
    /\ {"abstract", "intro", "references"} \subseteq DOMAIN section_content
    /\ Len(section_content["references"]) > Len(ReferencesHeader)

(***************************************************************************)
(* Claims about the references block (checked under SpecRefs)              *)
(***************************************************************************)
RECURSIVE SplitFrom(_, _, _)
\* the pieces of text[i..] between the separators "\n\n", cur being the
\* piece under way
SplitFrom(text, i, cur) ==
    IF i > Len(text) THEN <<cur>>
    ELSE IF i < Len(text) /\ text[i] = "\n" /\ text[i + 1] = "\n"
    THEN <<cur>> \o SplitFrom(text, i + 2, <<>>)
    ELSE SplitFrom(text, i + 1, Append(cur, text[i]))

\* text.split("\n\n")
SplitLines(text) == SplitFrom(text, 1, <<>>)

\* C10: the references block holds no citation line twice.
C10_NoCitationLineTwice ==
    "references" \in DOMAIN section_content =>
        LET lines == SplitLines(section_content["references"])
        IN  \A i, j \in 1..Len(lines) :
                (i # j /\ lines[i] = lines[j]) => lines[i] = <<>>

\* C10 witness: a generate-named-section call whose search returned a
\* candidate twice, and one whose citation line was already in the block;
\* the block lists two works
C10_Witness ==
    /\ last.op = "generate_section" /\ last.code = 200
    /\ last.resurfaced
    /\ Len(last.papers) = 2 /\ last.papers[1] = last.papers[2]
    /\ Len(SplitLines(section_content["references"])) >= 5


\* C28 (as claimed): after a generate-named-section call that returned, every
\* candidate its search returned has a complete citation entry of its own in
\* the references block: authors, year, title, and the DOI when there is one,
\* followed by a blank line; also a candidate without DOI whose authors, year
\* and title are those of a listed candidate with a DOI.
C28_EveryCandidateHasItsEntry ==
    (last.op = "generate_section" /\ last.code = 200) =>
        \A i \in 1..Len(last.papers) :
            LET lines == SplitLines(section_content["references"])
            IN  \E k \in 1..(Len(lines) - 1) :
                    lines[k] = Citation(last.papers[i])
(***************************************************************************)
(* Claims about single operations (checked under Spec)                     *)
(***************************************************************************)
\* the last request was a start call that returned
AfterStart == last.op = "start" /\ last.code = 200

\* C12: a start that returns has set current_section to required_sections[0]
\* when there is one, else to custom_sections[0], and returns the status
\* in_progress; when that section is "abstract", one completion call was made
\* and its text is stored under the key "abstract", the only key.
C12_StartSetsFirstSection ==
    AfterStart =>
        /\ current_section =
               IF required_sections # <<>>
               THEN required_sections[1] ELSE custom_sections[1]
        /\ last.section = current_section
        /\ last.status = "in_progress"
        /\ generation_status = "in_progress"
        /\ IF current_section = "abstract"
           THEN /\ last.completions = 1
                /\ DOMAIN section_content = {"abstract"}
                /\ section_content["abstract"] \in Texts
           ELSE /\ last.completions = 0
                /\ DOMAIN section_content = {}

\* C12 witness: a paper with required and custom sections was started and
\* its abstract generated
C12_Witness ==
    /\ AfterStart
    /\ required_sections = <<"abstract", "intro">>
    /\ custom_sections = <<"custom">>
    /\ current_section = "abstract"
    /\ "abstract" \in DOMAIN section_content

\* a step that is a generate-next call that returned
GenerateNextReturns ==
    last'.op = "generate_next" /\ last'.code = 200 /\ nreq' = nreq + 1

NotFoundStatus == 404

\* C14 (as claimed): a paper-scoped operation called with an unknown paper
\* identifier answers with the status of the not-found class, which no
\* upstream or server failure is answered with, and the stored row is as it
\* was.
C14_UnknownPaperIsNotFound ==
    [][(nreq' = nreq + 1 /\ last'.error = "not_found")
          => /\ last'.code = NotFoundStatus
             /\ UNCHANGED row]_vars

\* the HTTP statuses of the validation-failure class
ValidationStatuses == {400, 422}

\* C15 (as claimed): a start with no required and no custom section is
\* answered with a status of the validation-failure class, has made no
\* completion call and has left no paper row.
C15_EmptyStartIsValidationFailure ==
    (last.op = "start" /\ last.error = "validation") =>
        /\ last.code \in ValidationStatuses
        /\ last.completions = 0
        /\ ~exists

\* a completion call of the last request raised
CompletionFailed == last.error = "upstream" \/ last.analysis = "error"

\* C16 (as claimed): a request during which a completion call fails returns
\* an error and leaves the stored row as it was.
C16_CompletionFailureChangesNothing ==
    [][(nreq' = nreq + 1 /\ CompletionFailed')
          => (last'.code # 200 /\ UNCHANGED row)]_vars

\* a step that is an edit-abstract or edit-section call that returned
EditReturns ==
    /\ nreq' = nreq + 1
    /\ last'.op \in {"edit_abstract", "edit_section"}
    /\ last'.code = 200

\* C18: a successful edit-abstract or edit-section leaves the edit history
\* one event longer, the events it held before being its beginning; every
\* other step leaves the edit history as it is.
C18_EditHistoryAppendOnly ==
    [][IF EditReturns
       THEN /\ Len(edit_history') = Len(edit_history) + 1
            /\ SubSeq(edit_history', 1, Len(edit_history)) = edit_history
       ELSE edit_history' = edit_history]_vars

\* C18 witness: an edit-section added a second event to a history
C18_Witness ==
    /\ last.op = "edit_section" /\ last.code = 200
    /\ Len(edit_history) = 2


\* C29 (as claimed): the event an edit-abstract or edit-section call appends
\* has as previous_content the content stored for the edited section just
\* before the call (when there was one) and as new_content the content stored
\* for it just after.
C29_EditEventMatchesStore ==
    [][EditReturns =>
          LET event == edit_history'[Len(edit_history')]
              section == last'.section
          IN  /\ section \in DOMAIN section_content
                    => event.previous_content = section_content[section]
              /\ section \in DOMAIN section_content'
              /\ event.new_content = section_content'[section]]_vars
(***************************************************************************)
(* Claims about the humanizing rewrite (checked under SpecRewrite)         *)
(***************************************************************************)
\* the rewrite of the run that has ended failed
RewriteFailed == r_pc = "done" /\ r_humanize \in {"no_text", "retry_error"}

\* C17: when the rewrite fails, after the last retry or on a response
\* without text, generate_section and get_chatgpt_analysis do not raise: they
\* return the completion text as it was.
C17_RewriteFailureReturnsOriginal ==
    RewriteFailed =>
        /\ r_outcome = "returned"
        /\ r_content \in Texts
        /\ r_result = r_content

\* C17 witness: the analysis was returned un-rewritten after the retries ran
\* out, an earlier run having ended too
C17_Witness ==
    /\ RewriteFailed
    /\ r_humanize = "retry_error"
    /\ r_kind = "analysis"
    /\ r_jobs = 2
    /\ r_result # <<>>

\* C19 (as claimed): any two consecutive requests to the humanizing service
\* are at least min_request_interval (1 second) apart.
C19_RequestsOneSecondApart ==
    \A i \in 1..(Len(r_sent) - 1) :
        r_sent[i + 1].at - r_sent[i].at >= MinRequestInterval

\* the positions in r_sent of the requests of run j
RequestsOf(j) == { i \in 1..Len(r_sent) : r_sent[i].job = j }

\* what C20 says of every humanize invocation but the way a failure
\* surfaces: at most 3 requests, none after a successful one, and one
\* completion call at most
AtMostThreeStopAtSuccess ==
    /\ \A j \in 1..r_jobs :
          /\ Cardinality(RequestsOf(j)) <= StopAfterAttempt
          /\ \A i, k \in RequestsOf(j) : i < k => ~r_sent[i].ok
    /\ r_completions <= 1

\* the run that has ended sent exactly 3 requests and all of them failed
ThreeFailedRequests ==
    /\ Cardinality(RequestsOf(r_jobs)) = StopAfterAttempt
    /\ \A i \in RequestsOf(r_jobs) : ~r_sent[i].ok

\* C20 (as claimed): a humanize invocation sends at most 3 requests, stops at
\* the first successful one, and surfaces a failure only after 3 consecutive
\* failed requests; the completion call is sent once.
C20_FailureOnlyAfterThreeFailures ==
    /\ AtMostThreeStopAtSuccess
    /\ RewriteFailed => ThreeFailedRequests

\* C20 (amended): a humanize invocation sends at most 3 requests and stops at
\* the first successful one; it surfaces a failed request only after 3
\* consecutive failed requests, and surfaces a successful response without
\* rewritten text at once, as the last request of the invocation; the
\* completion call is sent once.
C20_AtMostThreeRequests ==
    /\ AtMostThreeStopAtSuccess
    /\ (r_pc = "done" /\ r_humanize = "retry_error") => ThreeFailedRequests
    /\ (r_pc = "done" /\ r_humanize = "no_text") =>
           /\ RequestsOf(r_jobs) # {}
           /\ r_sent[Len(r_sent)].job = r_jobs
           /\ r_sent[Len(r_sent)].ok

\* C20 witness: an invocation gave up after its third failed request
C20_Witness ==
    /\ r_pc = "done"
    /\ r_humanize = "retry_error"
    /\ ThreeFailedRequests
    /\ r_attempt = StopAfterAttempt

(***************************************************************************)
(* Claims about the order of generation (checked under Spec and SpecOrder) *)
(***************************************************************************)
\* current_section is the last entry of required_sections + custom_sections
AtLastEntry ==
    LET all == required_sections \o custom_sections
    IN  Len(all) > 0 /\ current_section = all[Len(all)]

\* C24 (as claimed): a generate-next call made when current_section is the
\* last entry of required_sections followed by custom_sections sets
\* generation_status to completed, makes no completion call and leaves the
\* section map and current_section unchanged.
C24_GenerateNextAtEndCompletes ==
    [][(GenerateNextReturns /\ AtLastEntry)
          => /\ generation_status' = "completed"
             /\ last'.completions = 0
             /\ UNCHANGED <<section_content, current_section>>]_vars


\* C27 (as claimed): once generation_status is completed, no request changes
\* it to another value.
C27_CompletedIsFinal ==
    [][generation_status = "completed" => generation_status' = "completed"]_vars
(***************************************************************************)
(* Claims about requests served side by side (checked under SpecInFlight)  *)
(***************************************************************************)
\* a step in which request r commits
Commits(r) == inflight[r].pc = "read" /\ inflight'[r].pc = "committed"

\* C25: nothing orders the read and the commit of two generate-named-section
\* requests: the commit of a request stores the map the request loaded plus
\* its own section and the references block, so a section committed by
\* another request after this request's read is absent from the stored map
\* after this request's commit (lost update).
C25_CommitStoresOwnSnapshot ==
    [][\A r \in Requests :
          Commits(r) =>
              DOMAIN section_content'
                  = DOMAIN inflight[r].current_content
                        \cup {inflight[r].section, "references"}]_vars

\* C25 witness: two requests for different sections have both committed and
\* the stored map lacks the section of one of them
C25_Witness ==
    \E r1, r2 \in Requests :
        /\ inflight[r1].pc = "committed"
        /\ inflight[r2].pc = "committed"
        /\ inflight[r1].section # inflight[r2].section
        /\ inflight[r1].section \notin DOMAIN section_content

(***************************************************************************)
(* Claims about the order of generation (checked under SpecOrder)          *)
(***************************************************************************)
\* the requests served after the first one
LaterRequests == { i \in 1..Len(served) : i > 1 }

\* the paper was started by the first request and nothing but generate-next
\* was called since, every call returning
OnlyGenerateNext ==
    /\ Len(served) >= 1
    /\ served[1].op = "start" /\ served[1].code = 200
    /\ \A i \in LaterRequests :
           served[i].op = "generate_next" /\ served[i].code = 200

\* C26 (as claimed): when a paper is started and nothing but generate-next is
\* called on it, every call returning, generation_status is completed once
\* len(required_sections) + len(custom_sections) calls have been made,
\* whether or not a section name occurs more than once in the lists.
C26_CompletedAfterLenCalls ==
    (OnlyGenerateNext
        /\ Cardinality(LaterRequests)
               >= Len(required_sections) + Len(custom_sections))
    => generation_status = "completed"


\* the sections generate-next generated, in the order of the calls
GeneratedAt ==
    { i \in 1..Len(served) :
        /\ served[i].op = "generate_next"
        /\ served[i].code = 200
        /\ served[i].section # NULL }

\* C30 (as claimed): generate-next never generates a section that precedes or
\* equals, in required_sections followed by custom_sections, a section it
\* generated before for the paper, whatever generate-named-section has made
\* of current_section in between.
C30_GenerateNextNeverGoesBack ==
    \A i, j \in GeneratedAt :
        i < j => IndexOf(AllSections, served[i].section)
                     < IndexOf(AllSections, served[j].section)

=============================================================================
